---- MODULE Spec2Model ----
(***************************************************************************)
(* Availability and booking engine of src/src/server.ts (makeScheduler and *)
(* the /v1 handlers of buildServer) against a calendar provider.           *)
(*                                                                         *)
(* Instants are absolute time in whole seconds since the epoch (the code   *)
(* works in milliseconds; every quantity of the engine is a whole number   *)
(* of seconds).  A luxon DateTime is modelled by its instant; the zone it  *)
(* is expressed in is applied where the code formats it.                   *)
(***************************************************************************)
EXTENDS Integers, Sequences, FiniteSets, TLC

\* an absent string (undefined)
Null == "null"
\* optional values that are not strings: None, or Some(x)
None == << >>
Some(x) == << x >>
Has(o) == o # << >>
Get(o) == o[1]

(***************************************************************************)
(* Constants of the program                                                *)
(***************************************************************************)
SLOT_MINUTES == 5
AVAIL_HORIZON_DAYS == 30
\* 60_000 ms, in seconds
SecPerMinute == 60
SecPerDay == 24 * 60 * SecPerMinute
DEFAULT_TZ == "America/New_York"

SlotSec == SLOT_MINUTES * SecPerMinute

(***************************************************************************)
(* Bounds of the model                                                     *)
(***************************************************************************)
\* requests handled in one run
NumCalls == 2
\* events per page of a list response (maxResults)
PageSize == 1

(***************************************************************************)
(* Time zones.  America/New_York (DEFAULT_TZ) is UTC-4 until the autumn    *)
(* transition FallBack and UTC-5 from then on, so the local hour before    *)
(* the transition is written twice on the wall clock.                      *)
(***************************************************************************)
\* 2025-11-02T06:00:00Z
FallBack == 1762063200
EdtOffset == 0 - 4 * 3600
EstOffset == 0 - 5 * 3600

ValidZones == {"UTC", "America/New_York"}

\* IANAZone.isValidZone
isValidZone(tz) == tz \in ValidZones

\* the UTC offset the zone has at instant t
Offset(tz, t) ==
  IF tz = "UTC" THEN 0
  ELSE IF t < FallBack THEN EdtOffset ELSE EstOffset

ZoneOffsets(tz) == IF tz = "UTC" THEN {0} ELSE {EdtOffset, EstOffset}

\* dt.setZone(tz).toFormat("yyyy-LL-dd'T'HH:mm:ss"): the wall clock, no offset
toFormat(t, tz) == t + Offset(tz, t)

\* dt.setZone(tz).toISO(): the wall clock together with the offset
toISO(t, tz) == [local |-> t + Offset(tz, t), offset |-> Offset(tz, t)]

\* DateTime.fromISO(s, {setZone: true}).toUTC() of an offset-qualified string
fromISO(iso) == iso.local - iso.offset

\* The instants whose wall clock in tz reads w
WallInstants(w, tz) == {t \in {w - o : o \in ZoneOffsets(tz)} : toFormat(t, tz) = w}

Min(S) == CHOOSE x \in S : \A y \in S : x <= y
Max(S) == CHOOSE x \in S : \A y \in S : x >= y

(***************************************************************************)
(* Pure helpers                                                            *)
(***************************************************************************)
CeilDiv(a, b) == 0 - ((0 - a) \div b)

\* mutant: Math.floor in place of Math.ceil
roundDownToMinutesUTC(dt, minutes) ==
  LET stepMs == minutes * SecPerMinute
      rounded == (dt \div stepMs) * stepMs
  IN  (rounded \div SecPerMinute) * SecPerMinute

\* mutant: the next boundary strictly after the instant
roundUpStrictlyAfter(dt, minutes) ==
  LET stepMs == minutes * SecPerMinute
      rounded == ((dt \div stepMs) + 1) * stepMs
  IN  (rounded \div SecPerMinute) * SecPerMinute

roundUpToMinutesUTC(dt, minutes) ==
  LET stepMs == minutes * SecPerMinute
      rounded == CeilDiv(dt, stepMs) * stepMs
  IN  (rounded \div SecPerMinute) * SecPerMinute

buildEventTimes(startLocal, tz, durationMin) ==
  LET end == startLocal + durationMin * SecPerMinute
  IN  [startDateTime |-> toFormat(startLocal, tz),
       endDateTime   |-> toFormat(end, tz),
       end           |-> end]

\* DateTime.fromISO(str, {zone: DEFAULT_TZ}).startOf('day').toUTC() of an event
\* boundary: a date-only string is local midnight of that date; a timed string is
\* the local midnight before its instant
startOfDayUTC(x) ==
  LET localDay == IF Has(x.dateTime)
                  THEN (toFormat(fromISO(Get(x.dateTime)), DEFAULT_TZ) \div SecPerDay) * SecPerDay
                  ELSE Get(x.date) * SecPerDay
  IN  Min(WallInstants(localDay, DEFAULT_TZ))

\* ev.start?.dateTime ?? ev.start?.date is present
hasStr(x) == Has(x.dateTime) \/ Has(x.date)

\* mutant: the transparency test is missing
parseEventKeepsTransparent(ev) ==
  LET isAllDay == Has(ev.start.date) /\ ~Has(ev.start.dateTime)
  IN  IF ~hasStr(ev.start) \/ ~hasStr(ev.end) THEN None
      ELSE IF ev.status = "cancelled" THEN None
      ELSE IF isAllDay
        THEN Some([start |-> startOfDayUTC(ev.start), end |-> startOfDayUTC(ev.end)])
      ELSE LET start == fromISO(Get(ev.start.dateTime))
               end   == IF Has(ev.end.dateTime) THEN fromISO(Get(ev.end.dateTime))
                        ELSE startOfDayUTC(ev.end)
           IN  IF end <= start THEN None ELSE Some([start |-> start, end |-> end])

\* mutant: the status test is missing
parseEventKeepsCancelled(ev) ==
  LET isAllDay == Has(ev.start.date) /\ ~Has(ev.start.dateTime)
  IN  IF ~hasStr(ev.start) \/ ~hasStr(ev.end) THEN None
      ELSE IF ev.transparency = "transparent" THEN None
      ELSE IF isAllDay
        THEN Some([start |-> startOfDayUTC(ev.start), end |-> startOfDayUTC(ev.end)])
      ELSE LET start == fromISO(Get(ev.start.dateTime))
               end   == IF Has(ev.end.dateTime) THEN fromISO(Get(ev.end.dateTime))
                        ELSE startOfDayUTC(ev.end)
           IN  IF end <= start THEN None ELSE Some([start |-> start, end |-> end])

parseEventDateTimesToUTC(ev) ==
  LET isAllDay == Has(ev.start.date) /\ ~Has(ev.start.dateTime)
  IN  IF ~hasStr(ev.start) \/ ~hasStr(ev.end) THEN None
      ELSE IF ev.status = "cancelled" THEN None
      ELSE IF ev.transparency = "transparent" THEN None
      ELSE IF isAllDay
        THEN Some([start |-> startOfDayUTC(ev.start), end |-> startOfDayUTC(ev.end)])
      ELSE LET start == fromISO(Get(ev.start.dateTime))
               end   == IF Has(ev.end.dateTime) THEN fromISO(Get(ev.end.dateTime))
                        ELSE startOfDayUTC(ev.end)
           IN  IF end <= start THEN None ELSE Some([start |-> start, end |-> end])

\* blocks.slice().sort((a, b) => a.start - b.start): stable, ascending by start
RECURSIVE insertByStart(_, _)
insertByStart(sorted, b) ==
  IF sorted = <<>> THEN <<b>>
  ELSE IF sorted[Len(sorted)].start <= b.start THEN Append(sorted, b)
  ELSE Append(insertByStart(SubSeq(sorted, 1, Len(sorted) - 1), b), sorted[Len(sorted)])

RECURSIVE sortByStart(_)
sortByStart(blocks) ==
  IF blocks = <<>> THEN <<>>
  ELSE insertByStart(sortByStart(SubSeq(blocks, 1, Len(blocks) - 1)), blocks[Len(blocks)])

\* mutant: a block that starts where the last one ends is not coalesced
mergeStepKeepsTouching(merged, b) ==
  IF merged = <<>> \/ b.start >= merged[Len(merged)].end
    THEN Append(merged, b)
  ELSE IF b.end > merged[Len(merged)].end
    THEN [merged EXCEPT ![Len(merged)].end = b.end]
  ELSE merged

\* mutant: a block that overlaps the last one never extends it
mergeStepDropsLonger(merged, b) ==
  IF merged = <<>> \/ b.start > merged[Len(merged)].end
    THEN Append(merged, b)
  ELSE merged

\* one iteration of the fold of mergeBlocks
mergeStep(merged, b) ==
  IF merged = <<>> \/ b.start > merged[Len(merged)].end
    THEN Append(merged, b)
  ELSE IF b.end > merged[Len(merged)].end
    THEN [merged EXCEPT ![Len(merged)].end = b.end]
  ELSE merged

RECURSIVE mergeFold(_, _, _)
mergeFold(sorted, i, merged) ==
  IF i > Len(sorted) THEN merged
  ELSE mergeFold(sorted, i + 1, mergeStep(merged, sorted[i]))

mergeBlocks(blocks) == mergeFold(sortByStart(blocks), 1, <<>>)

\* The objects mergeBlocks writes to.  The input array holds objects 1 .. Len(blocks);
\* blocks.slice() is a new array of the same objects, in sorted order by index
withIndex(blocks) ==
  [i \in 1 .. Len(blocks) |->
     [start |-> blocks[i].start, end |-> blocks[i].end, ix |-> i]]

\* merged.push({ ...b }): the object pushed is a fresh copy (0), not input object ix
pushedObject(ix) == 0

\* the input objects after the fold: owners[k] is the object behind merged[k], and
\* last.end = b.end writes to the object behind the last entry
RECURSIVE inputAfterFold(_, _, _, _, _)
inputAfterFold(sorted, i, merged, owners, heap) ==
  IF i > Len(sorted) THEN heap
  ELSE LET b    == [start |-> sorted[i].start, end |-> sorted[i].end]
           next == mergeStep(merged, b)
       IN  IF Len(next) > Len(merged)
             THEN inputAfterFold(sorted, i + 1, next,
                                 Append(owners, pushedObject(sorted[i].ix)), heap)
           ELSE IF next # merged
             THEN inputAfterFold(sorted, i + 1, next, owners,
                    IF owners[Len(owners)] = 0 THEN heap
                    ELSE [heap EXCEPT ![owners[Len(owners)]].end = b.end])
           ELSE inputAfterFold(sorted, i + 1, next, owners, heap)

\* the array passed to mergeBlocks, as the call leaves it
blocksAfterMerge(blocks) ==
  inputAfterFold(sortByStart(withIndex(blocks)), 1, << >>, << >>, blocks)

\* mutant: the fit test forgets the length of the slot
RECURSIVE scanMergedNoLength(_, _, _)
scanMergedNoLength(merged, i, t) ==
  IF i > Len(merged) THEN t
  ELSE LET b == merged[i]
       IN  IF t <= b.start THEN t
           ELSE scanMergedNoLength(merged, i + 1,
                  IF t < b.end THEN roundUpToMinutesUTC(b.end, SLOT_MINUTES) ELSE t)

\* mutant: the jump past a busy interval leaves one more slot out
RECURSIVE scanMergedSkipsSlot(_, _, _)
scanMergedSkipsSlot(merged, i, t) ==
  IF i > Len(merged) THEN t
  ELSE LET b == merged[i]
       IN  IF t + SlotSec <= b.start THEN t
           ELSE scanMergedSkipsSlot(merged, i + 1,
                  IF t < b.end THEN roundUpToMinutesUTC(b.end, SLOT_MINUTES) + SlotSec
                  ELSE t)

\* the scan loop of findFirstFreeSlotFromUTC over the merged timeline
RECURSIVE scanMerged(_, _, _)
scanMerged(merged, i, t) ==
  IF i > Len(merged) THEN t
  ELSE LET b == merged[i]
       IN  IF t + SlotSec <= b.start THEN t
           ELSE scanMerged(merged, i + 1,
                           IF t < b.end THEN roundUpToMinutesUTC(b.end, SLOT_MINUTES) ELSE t)

\* mutant: the start of the window is returned without the scan
firstFreeSlotNoScan(startUTC, blocks) == startUTC

firstFreeSlot(startUTC, blocks) == scanMerged(mergeBlocks(blocks), 1, startUTC)

\* the idempotency key of scheduleAtOrNextUTC
externalKeyOf(email, startLocal, tz, label) ==
  << "grand-villa", "diana",
     IF email = Null THEN "anon" ELSE email,
     toISO(startLocal, tz),
     IF label = Null THEN "" ELSE label >>

(***************************************************************************)
(* The calendar provider: events.list and events.insert as the engine      *)
(* calls them.  An event is held as the provider returns it.               *)
(***************************************************************************)
timed(t, tz) == [dateTime |-> Some(toISO(t, tz)), date |-> None]

\* the instant at which the provider places an event boundary
providerInstant(x) ==
  IF Has(x.dateTime) THEN fromISO(Get(x.dateTime)) ELSE startOfDayUTC(x)

\* a wall-clock dateTime with a timeZone, as the provider reads it: a local time
\* written twice on the wall clock denotes one of its two occurrences, by a rule
\* of the provider (occ) that the request cannot state
Occurrences == { "first", "second" }
resolveWallClock(w, tz, occ) ==
  IF occ = "first" THEN Min(WallInstants(w, tz)) ELSE Max(WallInstants(w, tz))

\* events.list: not deleted, ending after timeMin, starting before timeMax and,
\* when privateExtendedProperty is given, carrying that externalKey
listMatches(events, timeMin, timeMax, keyFilter) ==
  { ev \in events :
      /\ ev.status # "cancelled"
      /\ providerInstant(ev.end) > fromISO(timeMin)
      /\ providerInstant(ev.start) < fromISO(timeMax)
      /\ (Has(keyFilter) => ev.externalKey = keyFilter) }

\* orderBy: 'startTime'
RECURSIVE orderByStartTime(_)
orderByStartTime(S) ==
  IF S = {} THEN << >>
  ELSE LET first == CHOOSE e \in S : \A f \in S :
                      \/ providerInstant(e.start) < providerInstant(f.start)
                      \/ /\ providerInstant(e.start) = providerInstant(f.start)
                         /\ e.id <= f.id
       IN  << first >> \o orderByStartTime(S \ {first})

\* one page of a list response: the items after the offset the token holds
listPage(events, timeMin, timeMax, pageToken) ==
  LET all   == orderByStartTime(listMatches(events, timeMin, timeMax, None))
      off   == IF Has(pageToken) THEN Get(pageToken) ELSE 0
      last  == IF off + PageSize < Len(all) THEN off + PageSize ELSE Len(all)
  IN  [items         |-> SubSeq(all, off + 1, last),
       nextPageToken |-> IF last < Len(all) THEN Some(last) ELSE None]

\* the parsed items of a page, in order: if (se) blocks.push(se)
RECURSIVE pushParsed(_, _, _)
pushParsed(blocks, items, i) ==
  IF i > Len(items) THEN blocks
  ELSE LET se == parseEventDateTimesToUTC(items[i])
       IN  pushParsed(IF Has(se) THEN Append(blocks, Get(se)) ELSE blocks, items, i + 1)

(***************************************************************************)
(* State                                                                   *)
(***************************************************************************)
VARIABLES
  store,   \* the provider's events
  seq,     \* the provider's count of inserted events (ids book-1, book-2, ...)
  call     \* per request: its inputs, its locals and its reply

vars == << store, seq, call >>

Calls == 1 .. NumCalls

\* the first and the second instant whose New York wall clock reads 01:00 on the
\* day of the transition
FirstHour == FallBack - 3600
SecondHour == FallBack

\* events on the calendar before the first request
\* an all-day event from date d1 to date d2 (days since the epoch)
seedAllDay(id, d1, d2) ==
  [id |-> id, status |-> "confirmed", transparency |-> "opaque",
   start |-> [dateTime |-> None, date |-> Some(d1)],
   end |-> [dateTime |-> None, date |-> Some(d2)],
   externalKey |-> None, by |-> 0]

seedEvent(id, start, end, transparency) ==
  [id |-> id, status |-> "confirmed", transparency |-> transparency,
   start |-> timed(start, "UTC"), end |-> timed(end, "UTC"),
   externalKey |-> None, by |-> 0]

\* an event the provider still holds after it was deleted
seedCancelled(id, start, end) ==
  [seedEvent(id, start, end, "opaque") EXCEPT !.status = "cancelled"]

idleCall ==
  [pc |-> "idle", kind |-> Null, requested |-> None, email |-> Null, label |-> Null,
   tz |-> Null, startUTC |-> None, pageToken |-> None, blocks |-> << >>,
   chosenUTC |-> None, bumped |-> FALSE, externalKey |-> None, hit |-> None,
   lookupFailed |-> FALSE, outcome |-> Null, eventId |-> None,
   nList |-> 0, nInsert |-> 0,
   fetchFailed |-> FALSE, insertFailed |-> FALSE, status |-> None,
   tzIn |-> Null]

InitWith(seeds) ==
  /\ store = seeds
  /\ seq = 0
  /\ call = [c \in Calls |-> idleCall]

(***************************************************************************)
(* Handlers.  A step runs a handler from one await to the next; a provider *)
(* call takes effect at the step that receives its response.               *)
(***************************************************************************)
arrivesNext(c) ==
  /\ call[c].pc = "idle"
  /\ IF c = 1 THEN TRUE ELSE call[c - 1].pc # "idle"

\* GET /v1/availability/soonest up to the first events.list request
ReceiveSoonest(c, from) ==
  /\ arrivesNext(c)
  /\ call' = [call EXCEPT ![c] =
       IF ~Has(from)
         THEN [@ EXCEPT !.kind = "soonest", !.pc = "done", !.outcome = "bad_request"]
         ELSE [@ EXCEPT !.kind = "soonest", !.requested = from, !.pc = "fetch",
                        !.startUTC = Some(roundUpToMinutesUTC(Get(from), SLOT_MINUTES))]]
  /\ UNCHANGED << store, seq >>

\* mutant: the body is not validated, a zone that is none falls back to DEFAULT_TZ
ReceiveBookUnchecked(c, from, email, label, tz) ==
  /\ arrivesNext(c)
  /\ call' = [call EXCEPT ![c] =
       IF ~Has(from)
         THEN [@ EXCEPT !.kind = "book", !.requested = from, !.tzIn = tz, !.pc = "done",
                        !.outcome = "bad_request"]
         ELSE [@ EXCEPT !.kind = "book", !.requested = from, !.email = email,
                        !.label = label, !.tzIn = tz,
                        !.tz = IF isValidZone(tz) THEN tz ELSE DEFAULT_TZ,
                        !.pc = "fetch",
                        !.startUTC = Some(roundUpToMinutesUTC(
                            roundUpToMinutesUTC(Get(from), SLOT_MINUTES), SLOT_MINUTES))]]
  /\ UNCHANGED << store, seq >>

\* PUT /v1/meetings up to the first events.list request of scheduleAtOrNextUTC
ReceiveBook(c, from, email, label, tz) ==
  /\ arrivesNext(c)
  /\ call' = [call EXCEPT ![c] =
       IF ~Has(from) \/ (tz # Null /\ ~isValidZone(tz))
         THEN [@ EXCEPT !.kind = "book", !.requested = from, !.tzIn = tz, !.pc = "done",
                        !.outcome = "bad_request"]
         ELSE [@ EXCEPT !.kind = "book", !.requested = from, !.email = email,
                        !.label = label, !.tzIn = tz,
                        !.tz = IF tz = Null THEN DEFAULT_TZ ELSE tz,
                        !.pc = "fetch",
                        !.startUTC = Some(roundUpToMinutesUTC(
                            roundUpToMinutesUTC(Get(from), SLOT_MINUTES), SLOT_MINUTES))]]
  /\ UNCHANGED << store, seq >>

\* mutant: the bump flag compares with the requested instant as given
afterChosenRawRequested(cs, chosenUTC) ==
  [cs EXCEPT !.chosenUTC = Some(chosenUTC),
             !.bumped = (chosenUTC # Get(cs.requested)),
             !.externalKey = Some(externalKeyOf(cs.email, chosenUTC, cs.tz, cs.label)),
             !.pc = "lookup"]

\* mutant: the event is created without waiting for the idempotency lookup
afterChosenSkipsLookup(cs, chosenUTC) ==
  LET roundedReqUTC == roundUpToMinutesUTC(Get(cs.requested), SLOT_MINUTES)
  IN  [cs EXCEPT !.chosenUTC = Some(chosenUTC),
                 !.bumped = (chosenUTC # roundedReqUTC),
                 !.externalKey = Some(externalKeyOf(cs.email, chosenUTC, cs.tz, cs.label)),
                 !.pc = "insert"]

\* what scheduleAtOrNextUTC computes between the slot finder's return and the
\* idempotency lookup
afterChosen(cs, chosenUTC) ==
  LET roundedReqUTC == roundUpToMinutesUTC(Get(cs.requested), SLOT_MINUTES)
  IN  [cs EXCEPT !.chosenUTC = Some(chosenUTC),
                 !.bumped = (chosenUTC # roundedReqUTC),
                 !.externalKey = Some(externalKeyOf(cs.email, chosenUTC, cs.tz, cs.label)),
                 !.pc = "lookup"]

\* the reply of the soonest handler
replySoonest(cs, chosenUTC) ==
  [cs EXCEPT !.chosenUTC = Some(chosenUTC), !.pc = "done", !.outcome = "ok"]

\* mutant: the loop ends after the first response, whatever token it carries
FetchFirstPageOnly(c) ==
  /\ call[c].pc = "fetch"
  /\ LET cs       == call[c]
         startUTC == Get(cs.startUTC)
         endUTC   == startUTC + AVAIL_HORIZON_DAYS * SecPerDay
         res      == listPage(store, toISO(startUTC, "UTC"), toISO(endUTC, "UTC"),
                              cs.pageToken)
         blocks   == pushParsed(cs.blocks, res.items, 1)
         fetched  == [cs EXCEPT !.blocks = blocks, !.pageToken = None,
                                !.nList = @ + 1]
     IN  call' = [call EXCEPT ![c] =
           IF cs.kind = "soonest"
             THEN replySoonest(fetched, firstFreeSlot(startUTC, blocks))
           ELSE afterChosen(fetched, firstFreeSlot(startUTC, blocks))]
  /\ UNCHANGED << store, seq >>

\* mutant: the slot finder places a hold on the slot it returns
FetchPageWithHold(c) ==
  /\ call[c].pc = "fetch"
  /\ LET cs       == call[c]
         startUTC == Get(cs.startUTC)
         endUTC   == startUTC + AVAIL_HORIZON_DAYS * SecPerDay
         res      == listPage(store, toISO(startUTC, "UTC"), toISO(endUTC, "UTC"),
                              cs.pageToken)
         blocks   == pushParsed(cs.blocks, res.items, 1)
         fetched  == [cs EXCEPT !.blocks = blocks, !.pageToken = res.nextPageToken,
                                !.nList = @ + 1]
         chosen   == firstFreeSlot(startUTC, blocks)
     IN  IF Has(res.nextPageToken)
           THEN call' = [call EXCEPT ![c] = fetched] /\ UNCHANGED << store, seq >>
           ELSE /\ call' = [call EXCEPT ![c] =
                     IF cs.kind = "soonest" THEN replySoonest(fetched, chosen)
                     ELSE afterChosen(fetched, chosen)]
                /\ store' = store \cup
                     { [seedEvent(seq + 1, chosen, chosen + SlotSec, "opaque")
                          EXCEPT !.by = c] }
                /\ seq' = seq + 1

\* one events.list response of the do-while loop of findFirstFreeSlotFromUTC, and
\* after the last page the merge and the scan
FetchPage(c) ==
  /\ call[c].pc = "fetch"
  /\ LET cs       == call[c]
         startUTC == Get(cs.startUTC)
         endUTC   == startUTC + AVAIL_HORIZON_DAYS * SecPerDay
         res      == listPage(store, toISO(startUTC, "UTC"), toISO(endUTC, "UTC"),
                              cs.pageToken)
         blocks   == pushParsed(cs.blocks, res.items, 1)
         fetched  == [cs EXCEPT !.blocks = blocks, !.pageToken = res.nextPageToken,
                                !.nList = @ + 1]
     IN  call' = [call EXCEPT ![c] =
           IF Has(res.nextPageToken) THEN fetched
           ELSE IF cs.kind = "soonest"
             THEN replySoonest(fetched, firstFreeSlot(startUTC, blocks))
           ELSE afterChosen(fetched, firstFreeSlot(startUTC, blocks))]
  /\ UNCHANGED << store, seq >>

\* a JavaScript value of a field of the error a provider call rejects with
jsUndefined == [t |-> "undefined", n |-> 0, s |-> ""]
jsNumber(n) == [t |-> "number", n |-> n, s |-> ""]
jsString(s) == [t |-> "string", n |-> 0, s |-> s]

\* a ?? b
nullish(a, b) == IF a.t = "undefined" THEN b ELSE a

\* Number(v): a number is itself, a string of digits is its value, any other
\* string is NaN (None)
Number(v) ==
  IF v.t = "number" THEN Some(v.n)
  ELSE IF v.s = "503" THEN Some(503)
  ELSE None

\* errors of the provider client: an HTTP error with a numeric code, a network
\* error whose code is a string, an error with statusCode only, a bare Error
ProviderErrors ==
  { [code |-> jsNumber(503), statusCode |-> jsUndefined],
    [code |-> jsString("ECONNRESET"), statusCode |-> jsUndefined],
    [code |-> jsUndefined, statusCode |-> jsNumber(429)],
    [code |-> jsUndefined, statusCode |-> jsUndefined] }

\* reply.status(n) takes an integer from 100 to 599 and throws on anything else
isStatusCode(n) == Has(n) /\ Get(n) >= 100 /\ Get(n) <= 599

\* the catch block of both handlers: reply.status(status).send(gcal_error), or
\* the exception reply.status throws leaves the handler
catchReply(cs, err) ==
  LET status == Number(nullish(nullish(err.code, err.statusCode), jsNumber(500)))
  IN  IF isStatusCode(status)
        THEN [cs EXCEPT !.pc = "done", !.outcome = "gcal_error", !.status = status]
        ELSE [cs EXCEPT !.pc = "done", !.outcome = "unhandled"]

\* events.list rejects: the call leaves findFirstFreeSlotFromUTC for the handler's
\* catch
FetchFail(c) ==
  /\ call[c].pc = "fetch"
  /\ \E err \in ProviderErrors :
       call' = [call EXCEPT ![c] =
         catchReply([@ EXCEPT !.nList = @ + 1, !.fetchFailed = TRUE], err)]
  /\ UNCHANGED << store, seq >>

\* mutant: the lookup is sent without the privateExtendedProperty filter
LookupUnfiltered(c) ==
  /\ call[c].pc = "lookup"
  /\ LET cs      == call[c]
         chosen  == Get(cs.chosenUTC)
         matches == listMatches(store, toISO(chosen, "UTC"),
                                toISO(chosen + SlotSec, "UTC"), None)
     IN  IF matches = {}
           THEN call' = [call EXCEPT ![c] = [@ EXCEPT !.pc = "insert", !.nList = @ + 1]]
           ELSE \E hit \in matches :
                  call' = [call EXCEPT ![c] =
                    [@ EXCEPT !.pc = "done", !.outcome = "ok", !.hit = Some(hit.id),
                              !.eventId = Some(hit.id), !.nList = @ + 1]]
  /\ UNCHANGED << store, seq >>

\* mutant: a hit is noted but the function does not return on it
LookupNoReturn(c) ==
  /\ call[c].pc = "lookup"
  /\ LET cs      == call[c]
         chosen  == Get(cs.chosenUTC)
         matches == listMatches(store, toISO(chosen, "UTC"),
                                toISO(chosen + SlotSec, "UTC"), cs.externalKey)
     IN  IF matches = {}
           THEN call' = [call EXCEPT ![c] = [@ EXCEPT !.pc = "insert", !.nList = @ + 1]]
           ELSE \E hit \in matches :
                  call' = [call EXCEPT ![c] =
                    [@ EXCEPT !.pc = "insert", !.hit = Some(hit.id), !.nList = @ + 1]]
  /\ UNCHANGED << store, seq >>

\* the idempotency lookup of scheduleAtOrNextUTC answers
Lookup(c) ==
  /\ call[c].pc = "lookup"
  /\ LET cs      == call[c]
         chosen  == Get(cs.chosenUTC)
         matches == listMatches(store, toISO(chosen, "UTC"),
                                toISO(chosen + SlotSec, "UTC"), cs.externalKey)
     IN  IF matches = {}
           THEN call' = [call EXCEPT ![c] = [@ EXCEPT !.pc = "insert", !.nList = @ + 1]]
           ELSE \E hit \in matches :
                  call' = [call EXCEPT ![c] =
                    [@ EXCEPT !.pc = "done", !.outcome = "ok", !.hit = Some(hit.id),
                              !.eventId = Some(hit.id), !.nList = @ + 1]]
  /\ UNCHANGED << store, seq >>

\* mutant: the lookup is not wrapped in try/catch
LookupFailThrows(c) ==
  /\ call[c].pc = "lookup"
  /\ call' = [call EXCEPT ![c] = [@ EXCEPT !.pc = "done", !.outcome = "gcal_error",
                                           !.lookupFailed = TRUE, !.nList = @ + 1]]
  /\ UNCHANGED << store, seq >>

\* the idempotency lookup rejects: caught, the call goes on to create the event
LookupFail(c) ==
  /\ call[c].pc = "lookup"
  /\ call' = [call EXCEPT ![c] = [@ EXCEPT !.pc = "insert", !.lookupFailed = TRUE,
                                           !.nList = @ + 1]]
  /\ UNCHANGED << store, seq >>

\* the event events.insert stores for a request body
insertedEvent(id, body, occ, by) ==
  LET start == resolveWallClock(body.start.dateTime, body.start.timeZone, occ)
      end   == resolveWallClock(body.end.dateTime, body.end.timeZone, occ)
  IN  [id |-> id, status |-> "confirmed", transparency |-> "opaque",
       start |-> timed(start, body.start.timeZone),
       end |-> timed(end, body.end.timeZone),
       externalKey |-> Some(body.externalKey), by |-> by]

\* requestBody of scheduleAtOrNextUTC
requestBody(cs) ==
  LET times == buildEventTimes(Get(cs.chosenUTC), cs.tz, SLOT_MINUTES)
  IN  [start |-> [dateTime |-> times.startDateTime, timeZone |-> cs.tz],
       end   |-> [dateTime |-> times.endDateTime, timeZone |-> cs.tz],
       externalKey |-> Get(cs.externalKey)]

\* the provider accepts a request body whose time range is not empty
acceptsBody(body, occ) ==
  resolveWallClock(body.start.dateTime, body.start.timeZone, occ)
    < resolveWallClock(body.end.dateTime, body.end.timeZone, occ)

\* mutant: the insert is made only while the chosen slot is still free
InsertIfFree(c) ==
  /\ call[c].pc = "insert"
  /\ listMatches(store, toISO(Get(call[c].chosenUTC), "UTC"),
                 toISO(Get(call[c].chosenUTC) + SlotSec, "UTC"), None) = {}
  /\ \E occ \in Occurrences :
       /\ acceptsBody(requestBody(call[c]), occ)
       /\ store' = store \cup { insertedEvent(seq + 1, requestBody(call[c]), occ, c) }
  /\ seq' = seq + 1
  /\ call' = [call EXCEPT ![c] = [@ EXCEPT !.pc = "done", !.outcome = "ok",
                                           !.eventId = Some(seq + 1),
                                           !.nInsert = @ + 1]]

\* events.insert answers with the new event
Insert(c) ==
  /\ call[c].pc = "insert"
  /\ \E occ \in Occurrences :
       /\ acceptsBody(requestBody(call[c]), occ)
       /\ store' = store \cup { insertedEvent(seq + 1, requestBody(call[c]), occ, c) }
  /\ seq' = seq + 1
  /\ call' = [call EXCEPT ![c] = [@ EXCEPT !.pc = "done", !.outcome = "ok",
                                           !.eventId = Some(seq + 1),
                                           !.nInsert = @ + 1]]

\* events.insert rejects: the call leaves scheduleAtOrNextUTC for the handler's
\* catch
InsertFail(c) ==
  /\ call[c].pc = "insert"
  /\ \E err \in ProviderErrors :
       call' = [call EXCEPT ![c] =
         catchReply([@ EXCEPT !.nInsert = @ + 1, !.insertFailed = TRUE], err)]
  /\ UNCHANGED << store, seq >>

(***************************************************************************)
(* Spec: PUT /v1/meetings requests handled concurrently.                   *)
(***************************************************************************)
\* requestedStartIso: mid-slot before the first 01:00, and the second 01:00; None
\* stands for a string that is no ISO datetime
BookFroms == { Some(FirstHour - 150), Some(SecondHour), None }
Emails == { Null, "alex@example.com" }
TzInputs == { Null, "UTC", "Mars/Phobos" }

SeedEvents == { seedEvent(0 - 1, FirstHour, FirstHour + SlotSec, "opaque") }

Init == \E seeds \in SUBSET SeedEvents : InitWith(seeds)

\* concurrent callers send the payload of the README tests; they differ in the
\* requested start and the zone
Receive(c) ==
  \E from \in BookFroms, tz \in TzInputs :
    ReceiveBook(c, from, "alex@example.com", "Tour with Diana", tz)

Next ==
  \E c \in Calls :
    \/ Receive(c)
    \/ FetchPage(c)
    \/ FetchFail(c)
    \/ Lookup(c)
    \/ LookupFail(c)
    \/ Insert(c)
    \/ InsertFail(c)

Spec == Init /\ [][Next]_vars

(***************************************************************************)
(* SeqSpec: requests handled one after another, each received after the    *)
(* reply to the one before.                                                *)
(***************************************************************************)
SeqFroms == { Some(FirstHour), Some(SecondHour) }
Labels == { Null, "Tour with Diana" }
SeqTz == { Null, "UTC" }

noneInFlight == \A d \in Calls : call[d].pc \in { "idle", "done" }

ReceiveSeq(c) ==
  /\ noneInFlight
  /\ \E from \in SeqFroms, email \in Emails, tz \in SeqTz :
       ReceiveBook(c, from, email, "Tour with Diana", tz)

NextSeq ==
  \E c \in Calls :
    \/ ReceiveSeq(c)
    \/ FetchPage(c)
    \/ FetchFail(c)
    \/ Lookup(c)
    \/ LookupFail(c)
    \/ Insert(c)
    \/ InsertFail(c)

SeqSpec == Init /\ [][NextSeq]_vars

(***************************************************************************)
(* FinderSpec: one request against a calendar of up to MaxSeeds events     *)
(* drawn from intervals around the requested instants.                     *)
(***************************************************************************)
MaxSeeds == 3

T0 == FirstHour
\* the date of T0 in DEFAULT_TZ
Today == toFormat(T0, DEFAULT_TZ) \div SecPerDay
FinderFroms == { Some(T0 - 1), Some(T0), Some(T0 + 1), Some(T0 + SlotSec),
                 Some(T0 + 2 * SlotSec + 30), None }

FinderSeeds ==
  { seedEvent(0 - 1, T0, T0 + SlotSec, "opaque"),
    seedEvent(0 - 2, T0 + SlotSec, T0 + 2 * SlotSec, "opaque"),
    seedEvent(0 - 3, T0 - 60, T0 + 1, "opaque"),
    seedEvent(0 - 4, T0 + 2 * SlotSec - 1, T0 + 2 * SlotSec + 90, "opaque"),
    seedEvent(0 - 5, T0 + SlotSec + 60, T0 + 4 * SlotSec, "opaque"),
    seedEvent(0 - 6, T0 + 3 * SlotSec + 1, T0 + 3 * SlotSec + 2, "opaque"),
    seedEvent(0 - 7, T0, T0 + 2 * SlotSec, "transparent"),
    seedEvent(0 - 8, T0 - 2 * SlotSec, T0, "opaque"),
    seedAllDay(0 - 9, Today, Today + 1),
    seedCancelled(0 - 10, T0, T0 + SlotSec),
    seedAllDay(0 - 11, Today + 1, Today + 1) }

InitFinder ==
  \E seeds \in SUBSET FinderSeeds : Cardinality(seeds) <= MaxSeeds /\ InitWith(seeds)

\* a soonest request without 'from' starts from DateTime.now(), one of the instants
ReceiveOne(c) ==
  /\ c = 1
  /\ \/ \E from \in FinderFroms : ReceiveSoonest(c, from)
     \/ \E from \in FinderFroms, label \in Labels, tz \in TzInputs :
          ReceiveBook(c, from, Null, label, tz)

NextFinder ==
  \E c \in Calls :
    \/ ReceiveOne(c)
    \/ FetchPage(c)
    \/ FetchFail(c)
    \/ Lookup(c)
    \/ LookupFail(c)
    \/ Insert(c)
    \/ InsertFail(c)

FinderSpec == InitFinder /\ [][NextFinder]_vars

(***************************************************************************)
(* Properties                                                              *)
(***************************************************************************)
\* [t, t + granularity) meets the interval b
overlapsSlot(b, t) == b.start < t + SlotSec /\ b.end > t

\* the calls whose slot finder has returned
hasChosen(c) == Has(call[c].chosenUTC)
chosenOf(c) == Get(call[c].chosenUTC)
normalizedOf(c) == roundUpToMinutesUTC(Get(call[c].requested), SLOT_MINUTES)

blocksOf(c) == { call[c].blocks[i] : i \in 1 .. Len(call[c].blocks) }
mergedOf(c) == LET m == mergeBlocks(call[c].blocks) IN { m[i] : i \in 1 .. Len(m) }

\* C1: the slot the finder returns, [chosenUTC, chosenUTC + 5 min), meets no interval
\* of the merged busy timeline built for that call, for soonest and for book
C1_SlotMeetsNoBusyInterval ==
  \A c \in Calls : hasChosen(c) =>
    \A b \in mergedOf(c) : ~overlapsSlot(b, chosenOf(c))

\* C1 witness: a slot was returned after the scan jumped past a busy interval of a
\* timeline of at least two merged intervals
C1_Witness ==
  \E c \in Calls :
    /\ hasChosen(c)
    /\ Cardinality(mergedOf(c)) >= 2
    /\ chosenOf(c) > normalizedOf(c)

\* C2: the returned slot is a multiple of the granularity, at or after the
\* normalized starting instant, free of every fetched busy interval, and no
\* quantized instant from the normalized start up to it is free
C2_EarliestFreeQuantizedSlot ==
  \A c \in Calls : hasChosen(c) =>
    LET n == normalizedOf(c)
        t == chosenOf(c)
        free(x) == \A b \in blocksOf(c) : ~overlapsSlot(b, x)
    IN  /\ t % SlotSec = 0
        /\ t >= n
        /\ free(t)
        /\ \A k \in 0 .. ((t - n) \div SlotSec) :
             n + k * SlotSec < t => ~free(n + k * SlotSec)

\* C2 witness: the scenario of the README test, a busy interval exactly on the
\* requested slot and the next slot returned
C2_Witness ==
  \E c \in Calls :
    /\ hasChosen(c)
    /\ call[c].kind = "soonest"
    /\ [start |-> normalizedOf(c), end |-> normalizedOf(c) + SlotSec] \in blocksOf(c)
    /\ chosenOf(c) = normalizedOf(c) + SlotSec

\* a provider event that consumes availability
blocking(ev) ==
  /\ ev.status # "cancelled"
  /\ ev.transparency # "transparent"
  /\ providerInstant(ev.start) < providerInstant(ev.end)

eventInterval(ev) == [start |-> providerInstant(ev.start), end |-> providerInstant(ev.end)]

\* C3: when no blocking event of the calendar meets [n, n + 5 min), n the normalized
\* requested instant, soonest and book choose exactly n and book reports no bump
C3_RequestedHonoredUnlessOccupied ==
  \A c \in Calls : hasChosen(c) =>
    LET n == normalizedOf(c)
    IN  (\A ev \in store : (ev.by = 0 /\ blocking(ev)) => ~overlapsSlot(eventInterval(ev), n))
          => (chosenOf(c) = n /\ call[c].bumped = FALSE)

\* C3 witness: a book call replied with the requested slot, unbumped, on a calendar
\* with busy time before and after it
C3_Witness ==
  \E c \in Calls :
    /\ call[c].kind = "book" /\ call[c].outcome = "ok"
    /\ chosenOf(c) = normalizedOf(c)
    /\ call[c].bumped = FALSE
    /\ Cardinality(blocksOf(c)) >= 2

\* the book calls that have replied with a booking
booked(c) == call[c].kind = "book" /\ call[c].pc = "done" /\ call[c].outcome = "ok"

\* C4: every book call that replies with a booking, new or replayed, reports
\* bumped exactly when the chosen instant differs from the normalized requested
\* instant; a request whose normalized slot was seen busy is bumped to a later slot
C4_BumpedIffChosenDiffers ==
  \A c \in Calls : booked(c) =>
    /\ call[c].bumped = (chosenOf(c) # normalizedOf(c))
    /\ (\E b \in blocksOf(c) : overlapsSlot(b, normalizedOf(c)))
         => (call[c].bumped = TRUE /\ chosenOf(c) > normalizedOf(c))

\* C4 witness: a replayed booking (a lookup hit) whose request was not on a slot
\* boundary and was bumped past a busy slot
C4_Witness ==
  \E c \in Calls :
    /\ booked(c)
    /\ Has(call[c].hit)
    /\ Get(call[c].requested) # normalizedOf(c)
    /\ call[c].bumped = TRUE

eventsBy(c) == { ev \in store : ev.by = c }
sameKey(c, d) == Has(call[c].externalKey) /\ call[c].externalKey = call[d].externalKey

sameRequest(c, d) ==
  /\ call[c].requested = call[d].requested
  /\ call[c].email = call[d].email
  /\ call[c].label = call[d].label
  /\ call[c].tz = call[d].tz

\* C6 as claimed: after a book call succeeded, the same request issued again
\* returns the identical eventId and creates no new event
C6_RepeatReturnsSameEvent ==
  \A c, d \in Calls : (c < d /\ booked(c) /\ booked(d) /\ sameRequest(c, d)) =>
    /\ call[d].eventId = call[c].eventId
    /\ eventsBy(d) = {}

\* C6 amended: when the same request is issued again after the first call
\* succeeded and the second call's fetch reports the first call's event busy, the
\* second call does not replay it: it chooses a slot clear of that event, inserts
\* an event of its own and returns a different eventId
C6_RepeatCreatesNewEvent ==
  \A c, d \in Calls : (c < d /\ booked(c) /\ booked(d) /\ sameRequest(c, d)) =>
    \A ev \in eventsBy(c) : eventInterval(ev) \in blocksOf(d) =>
      /\ call[d].eventId # call[c].eventId
      /\ ~Has(call[d].hit)
      /\ ~overlapsSlot(eventInterval(ev), chosenOf(d))
      /\ Cardinality(eventsBy(d)) = 1
      /\ \A new \in eventsBy(d) : call[d].eventId = Some(new.id)

\* C6 witness: the README test 'stacks back-to-back': the same request booked twice,
\* the second one slot after the first, with a different id
C6_Witness ==
  \E c, d \in Calls :
    /\ c < d /\ booked(c) /\ booked(d) /\ sameRequest(c, d)
    /\ \E ev \in eventsBy(c) : eventInterval(ev) \in blocksOf(d)
    /\ chosenOf(d) = chosenOf(c) + SlotSec
    /\ call[c].eventId # call[d].eventId

\* C7 as claimed: with requests run one after another, the slot a call has chosen
\* meets no blocking event on the calendar, and no event created by book meets
\* another event created by book or a blocking event that was there before
C7_SequentialBookingsNeverOverlap ==
  /\ \A c \in Calls : call[c].pc \in { "lookup", "insert" } =>
       \A ev \in store : blocking(ev) => ~overlapsSlot(eventInterval(ev), chosenOf(c))
  /\ \A e \in store, f \in store :
       (e.by # 0 /\ e.id # f.id /\ blocking(f)) =>
         ~(eventInterval(e).start < eventInterval(f).end
             /\ eventInterval(f).start < eventInterval(e).end)

C10_LookupFailureFallsThrough ==
  \A c \in Calls : call[c].lookupFailed =>
    /\ call[c].pc \in { "insert", "done" }
    /\ ~Has(call[c].hit)
    /\ call[c].pc = "done" =>
         /\ call[c].nInsert = 1
         /\ IF eventsBy(c) = {}
              THEN call[c].insertFailed /\ call[c].outcome # "ok"
              ELSE /\ call[c].outcome = "ok"
                   /\ \A ev \in eventsBy(c) :
                        /\ call[c].eventId = Some(ev.id)
                        /\ ev.externalKey = call[c].externalKey

\* C10 witness: a call whose lookup failed replied with a booking of its own
C10_Witness ==
  \E c \in Calls :
    /\ call[c].lookupFailed
    /\ booked(c)
    /\ \E ev \in eventsBy(c) : call[c].eventId = Some(ev.id)

(***************************************************************************)
(* PureSpec: the pure helpers applied to arguments drawn at the start.     *)
(* 'call' holds the one call under way: its arguments and its results.     *)
(***************************************************************************)
\* most blocks handed to mergeBlocks, and the last instant of their grid
MaxBlocks == 3
MaxPoint == 3

\* granularities in minutes: SLOT_MINUTES, the finest, and one that divides no hour
Granularities == { 1, SLOT_MINUTES, 7 }

\* instants a slot before and after T0, second by second, across the transition's
\* first hour
NormInstants == (T0 - SlotSec) .. (T0 + SlotSec)

\* a DateTime: the instant and the zone it is expressed in
dateTimeIn(t, zone) == [ts |-> t, zone |-> zone]

\* dt.toUTC().toMillis()
toUTCMillis(dt) == fromISO(toISO(dt.ts, dt.zone))

\* every interval over the grid, empty and inverted ones included
GridBlocks == { [start |-> a, end |-> b] : a \in 0 .. MaxPoint, b \in 0 .. MaxPoint }

RECURSIVE seqsUpTo(_, _)
seqsUpTo(S, n) ==
  IF n = 0 THEN { << >> }
  ELSE LET shorter == seqsUpTo(S, n - 1)
       IN  shorter \cup { Append(q, x) : q \in { r \in shorter : Len(r) = n - 1 }, x \in S }

InitPure ==
  /\ store = {}
  /\ seq = 0
  /\ \/ \E t \in NormInstants, zone \in ValidZones, g \in Granularities :
          call = [pc |-> "normalize", dt |-> dateTimeIn(t, zone), minutes |-> g,
                  once |-> None, twice |-> None]
     \/ \E blocks \in seqsUpTo(GridBlocks, MaxBlocks) :
          call = [pc |-> "merge", passed |-> blocks, blocks |-> blocks,
                  merged |-> << >>]

\* roundUpToMinutesUTC(dt, minutes)
Normalize ==
  /\ call.pc = "normalize"
  /\ call' = [call EXCEPT !.pc = "normalized",
                !.once = Some(roundUpToMinutesUTC(toUTCMillis(call.dt), call.minutes))]
  /\ UNCHANGED << store, seq >>

\* roundUpToMinutesUTC applied to its own result, as the slot finder does to the
\* instant scheduleAtOrNextUTC hands it
NormalizeAgain ==
  /\ call.pc = "normalized"
  /\ call' = [call EXCEPT !.pc = "renormalized",
                !.twice = Some(roundUpToMinutesUTC(Get(call.once), call.minutes))]
  /\ UNCHANGED << store, seq >>

\* mergeBlocks(blocks)
Merge ==
  /\ call.pc = "merge"
  /\ call' = [call EXCEPT !.pc = "merged", !.merged = mergeBlocks(call.blocks),
                           !.blocks = blocksAfterMerge(call.blocks)]
  /\ UNCHANGED << store, seq >>

NextPure ==
  \/ Normalize
  \/ NormalizeAgain
  \/ Merge

PureSpec == InitPure /\ [][NextPure]_vars

(***************************************************************************)
(* The first server of the file: POST /schedule and POST /reschedule.      *)
(* Its events carry attendees and a summary next to the fields above.      *)
(***************************************************************************)
\* requests handled one after the other
MaxRequests == 2
Requests == 1 .. MaxRequests

TourSummary == "Grand Villa Tour"

\* DateTime.now() of findExistingEventByEmail and the days it looks ahead
Now == T0 - SecPerDay
FindAheadDays == 60

tourEvent(id, start, end, tz, email, key, by) ==
  [id |-> id, status |-> "confirmed", transparency |-> "opaque",
   start |-> timed(start, tz), end |-> timed(end, tz),
   externalKey |-> key, by |-> by,
   attendees |-> IF email = Null THEN {} ELSE { email }, summary |-> TourSummary]

\* externalKey ?? `${roomId ?? ''}|${agentId ?? ''}|${email}|${startDateTime}|${tz}`
\* (roomId and agentId are absent in the requests below)
idempKey(externalKey, email, startDateTime, tz) ==
  IF externalKey # Null
    THEN [given |-> externalKey, email |-> "", startDateTime |-> 0, tz |-> ""]
    ELSE [given |-> Null, email |-> IF email = Null THEN "" ELSE email,
          startDateTime |-> startDateTime, tz |-> tz]

\* if (idempKey): the empty string is no key
truthy(key) == key.given # ""

\* events.list with privateExtendedProperty externalKey=key and no time range
listByKey(events, key) ==
  { ev \in events : ev.status # "cancelled" /\ ev.externalKey = Some(key) }

\* freebusy.query: the busy time of the calendar between timeMin and timeMax
busyBetween(events, timeMin, timeMax) ==
  { ev \in listMatches(events, timeMin, timeMax, None) :
      ev.transparency # "transparent" }

\* events.list with q: 'Grand Villa Tour' from now on for 60 days, and of its
\* items those with the attendee (compared in lower case: the addresses below are)
tourEventsOf(events, email) ==
  { ev \in listMatches(events, toISO(Now, "UTC"),
                       toISO(Now + FindAheadDays * SecPerDay, "UTC"), None) :
      ev.summary = TourSummary /\ email \in ev.attendees }

idleRequest ==
  [pc |-> "idle", kind |-> Null, email |-> Null, start |-> None, tz |-> Null,
   durationMin |-> 0, allowOverbook |-> TRUE, externalKey |-> Null,
   eventIdIn |-> None, key |-> None, existing |-> None, dupHit |-> FALSE,
   failedAt |-> Null, outcome |-> Null, eventId |-> None,
   nList |-> 0, nFreeBusy |-> 0, nInsert |-> 0, nDelete |-> 0]

\* a busy hour that begins before T0, and a tour of the caller that is over
LegacySeeds ==
  { [tourEvent(0 - 1, T0 - 1800, T0 + 1800, "UTC", Null, None, 0)
       EXCEPT !.summary = "Staff meeting"],
    tourEvent(0 - 2, Now - 7200, Now - 3600, "UTC", "alex@example.com", None, 0) }

InitLegacy ==
  /\ \E seeds \in { {}, LegacySeeds } : store = seeds
  /\ seq = 0
  /\ call = [c \in Requests |-> idleRequest]

\* the request before c has been answered
inTurn(c) ==
  /\ call[c].pc = "idle"
  /\ IF c = 1 THEN TRUE ELSE call[c - 1].pc = "done"

startDtOf(cs) == Get(cs.start)
endOf(cs) == Get(cs.start) + cs.durationMin * SecPerMinute

\* POST /schedule up to its first provider call.  start is the instant startIso or
\* the label resolves to, None if neither parses
ReceiveSchedule(c, email, start, durationMin, tz, allowOverbook, externalKey) ==
  /\ inTurn(c)
  /\ LET zone == IF tz = Null THEN DEFAULT_TZ ELSE tz
         got  == [call[c] EXCEPT !.kind = "schedule", !.email = email, !.start = start,
                    !.durationMin = durationMin, !.tz = zone,
                    !.allowOverbook = allowOverbook, !.externalKey = externalKey]
     IN  call' = [call EXCEPT ![c] =
           IF email = Null \/ ~Has(start) \/ ~isValidZone(zone)
             THEN [got EXCEPT !.pc = "done", !.outcome = "bad_request"]
           ELSE LET times == buildEventTimes(Get(start), zone, durationMin)
                    key   == idempKey(externalKey, email, times.startDateTime, zone)
                IN  [got EXCEPT !.key = Some(key),
                       !.pc = IF truthy(key) THEN "dup"
                              ELSE IF ~allowOverbook THEN "freebusy"
                              ELSE "insert"]]
  /\ UNCHANGED << store, seq >>

\* a provider call rejects: the catch of either handler replies 500
serverError(cs, at) ==
  [cs EXCEPT !.pc = "done", !.outcome = "server_error", !.failedAt = at]
\* where /schedule goes once the duplicate check has found nothing
afterDup(cs) == IF ~cs.allowOverbook THEN "freebusy" ELSE "insert"

\* mutant: the duplicate check does not end the call
DupListIgnoresHit(c) ==
  /\ call[c].pc = "dup"
  /\ LET hits == listByKey(store, Get(call[c].key))
     IN  call' = [call EXCEPT ![c] =
           [@ EXCEPT !.nList = @ + 1, !.dupHit = (hits # {}), !.pc = afterDup(call[c])]]
  /\ UNCHANGED << store, seq >>

\* the duplicate check of /schedule answers
DupList(c) ==
  /\ call[c].pc = "dup"
  /\ LET hits == listByKey(store, Get(call[c].key))
     IN  call' = [call EXCEPT ![c] =
           IF hits # {}
             THEN [@ EXCEPT !.nList = @ + 1, !.dupHit = TRUE, !.pc = "done",
                            !.outcome = "duplicate"]
             ELSE [@ EXCEPT !.nList = @ + 1, !.pc = afterDup(call[c])]]
  /\ UNCHANGED << store, seq >>

DupListFail(c) ==
  /\ call[c].pc = "dup"
  /\ call' = [call EXCEPT ![c] = serverError([@ EXCEPT !.nList = @ + 1], "dup")]
  /\ UNCHANGED << store, seq >>

\* mutant: the conflict check is skipped unless allowOverbook is set
FreeBusyInverted(c) ==
  /\ call[c].pc = "freebusy"
  /\ LET cs   == call[c]
         busy == busyBetween(store, toISO(startDtOf(cs), "UTC"), toISO(endOf(cs), "UTC"))
     IN  call' = [call EXCEPT ![c] =
           IF busy # {} /\ cs.allowOverbook
             THEN [@ EXCEPT !.nFreeBusy = @ + 1, !.pc = "done", !.outcome = "time_conflict"]
             ELSE [@ EXCEPT !.nFreeBusy = @ + 1, !.pc = "insert"]]
  /\ UNCHANGED << store, seq >>

\* freebusy.query answers
FreeBusy(c) ==
  /\ call[c].pc = "freebusy"
  /\ LET cs   == call[c]
         busy == busyBetween(store, toISO(startDtOf(cs), "UTC"), toISO(endOf(cs), "UTC"))
     IN  call' = [call EXCEPT ![c] =
           IF busy # {}
             THEN [@ EXCEPT !.nFreeBusy = @ + 1, !.pc = "done", !.outcome = "time_conflict"]
             ELSE [@ EXCEPT !.nFreeBusy = @ + 1, !.pc = "insert"]]
  /\ UNCHANGED << store, seq >>

\* freebusy.query rejects: the inner catch falls back to events.list
FreeBusyFail(c) ==
  /\ call[c].pc = "freebusy"
  /\ call' = [call EXCEPT ![c] = [@ EXCEPT !.nFreeBusy = @ + 1, !.pc = "conflictList"]]
  /\ UNCHANGED << store, seq >>

\* the fallback list answers: any event in the window is a conflict
ConflictList(c) ==
  /\ call[c].pc = "conflictList"
  /\ LET cs    == call[c]
         items == listMatches(store, toISO(startDtOf(cs), "UTC"),
                              toISO(endOf(cs), "UTC"), None)
     IN  call' = [call EXCEPT ![c] =
           IF items # {}
             THEN [@ EXCEPT !.nList = @ + 1, !.pc = "done", !.outcome = "time_conflict"]
             ELSE [@ EXCEPT !.nList = @ + 1, !.pc = "insert"]]
  /\ UNCHANGED << store, seq >>

ConflictListFail(c) ==
  /\ call[c].pc = "conflictList"
  /\ call' = [call EXCEPT ![c] = serverError([@ EXCEPT !.nList = @ + 1], "conflictList")]
  /\ UNCHANGED << store, seq >>

\* the event either handler inserts: wall-clock start and end with the zone, the
\* attendee, and the key unless it is empty
tourBody(cs) ==
  LET times == buildEventTimes(startDtOf(cs), cs.tz, cs.durationMin)
      key   == idempKey(cs.externalKey, cs.email, times.startDateTime, cs.tz)
  IN  [start |-> [dateTime |-> times.startDateTime, timeZone |-> cs.tz],
       end   |-> [dateTime |-> times.endDateTime, timeZone |-> cs.tz],
       email |-> cs.email,
       externalKey |-> IF truthy(key) THEN Some(key) ELSE None]

storedTour(id, body, occ, by) ==
  tourEvent(id, resolveWallClock(body.start.dateTime, body.start.timeZone, occ),
            resolveWallClock(body.end.dateTime, body.end.timeZone, occ),
            body.start.timeZone, body.email, body.externalKey, by)

\* events.insert of /schedule answers
InsertSchedule(c) ==
  /\ call[c].pc = "insert"
  /\ \E occ \in Occurrences :
       /\ acceptsBody(tourBody(call[c]), occ)
       /\ store' = store \cup { storedTour(seq + 1, tourBody(call[c]), occ, c) }
  /\ seq' = seq + 1
  /\ call' = [call EXCEPT ![c] = [@ EXCEPT !.pc = "done", !.outcome = "ok",
                                           !.eventId = Some(seq + 1),
                                           !.nInsert = @ + 1]]

InsertScheduleFail(c) ==
  /\ call[c].pc = "insert"
  /\ call' = [call EXCEPT ![c] = serverError([@ EXCEPT !.nInsert = @ + 1], "insert")]
  /\ UNCHANGED << store, seq >>

\* /reschedule from 'Resolve new start' to events.insert
resolveNewStart(cs) ==
  IF ~Has(cs.start) \/ ~isValidZone(cs.tz)
    THEN [cs EXCEPT !.pc = "done", !.outcome = "bad_request"]
    ELSE [cs EXCEPT !.pc = "reinsert"]

\* POST /reschedule up to its first provider call
ReceiveReschedule(c, eventIdIn, email, start, durationMin, tz) ==
  /\ inTurn(c)
  /\ LET zone == IF tz = Null THEN DEFAULT_TZ ELSE tz
         got  == [call[c] EXCEPT !.kind = "reschedule", !.eventIdIn = eventIdIn,
                    !.email = email, !.start = start, !.durationMin = durationMin,
                    !.tz = zone]
     IN  call' = [call EXCEPT ![c] =
           IF ~Has(eventIdIn) /\ email = Null
             THEN [got EXCEPT !.pc = "done", !.outcome = "bad_request"]
           ELSE IF Has(eventIdIn)
             THEN resolveNewStart([got EXCEPT !.existing = eventIdIn])
           ELSE [got EXCEPT !.pc = "find"]]
  /\ UNCHANGED << store, seq >>

\* mutant: the handler goes on without an existing event
FindExistingNoCheck(c) ==
  /\ call[c].pc = "find"
  /\ LET found == orderByStartTime(tourEventsOf(store, call[c].email))
     IN  call' = [call EXCEPT ![c] =
           resolveNewStart([@ EXCEPT !.nList = @ + 1,
              !.existing = IF found = << >> THEN None ELSE Some(found[1].id)])]
  /\ UNCHANGED << store, seq >>

\* findExistingEventByEmail answers: the first item with the attendee, or 404
FindExisting(c) ==
  /\ call[c].pc = "find"
  /\ LET found == orderByStartTime(tourEventsOf(store, call[c].email))
     IN  call' = [call EXCEPT ![c] =
           IF found = << >>
             THEN [@ EXCEPT !.nList = @ + 1, !.pc = "done", !.outcome = "not_found"]
             ELSE resolveNewStart([@ EXCEPT !.nList = @ + 1,
                                            !.existing = Some(found[1].id)])]
  /\ UNCHANGED << store, seq >>

FindExistingFail(c) ==
  /\ call[c].pc = "find"
  /\ call' = [call EXCEPT ![c] = serverError([@ EXCEPT !.nList = @ + 1], "find")]
  /\ UNCHANGED << store, seq >>

\* events.insert of /reschedule answers; the old event is deleted next
InsertReschedule(c) ==
  /\ call[c].pc = "reinsert"
  /\ \E occ \in Occurrences :
       /\ acceptsBody(tourBody(call[c]), occ)
       /\ store' = store \cup { storedTour(seq + 1, tourBody(call[c]), occ, c) }
  /\ seq' = seq + 1
  /\ call' = [call EXCEPT ![c] = [@ EXCEPT !.pc = "delete", !.nInsert = @ + 1]]

\* mutant: a rejected insert does not end the handler, the delete follows
InsertRescheduleFailGoesOn(c) ==
  /\ call[c].pc = "reinsert"
  /\ call' = [call EXCEPT ![c] = [@ EXCEPT !.pc = "delete", !.nInsert = @ + 1]]
  /\ UNCHANGED << store, seq >>

\* events.insert of /reschedule rejects: the catch replies 500
InsertRescheduleFail(c) ==
  /\ call[c].pc = "reinsert"
  /\ call' = [call EXCEPT ![c] = serverError([@ EXCEPT !.nInsert = @ + 1], "reinsert")]
  /\ UNCHANGED << store, seq >>

\* events.delete answers: the old event is cancelled and the new one reported
DeleteOld(c) ==
  /\ call[c].pc = "delete"
  /\ \E old \in store :
       /\ old.id = Get(call[c].existing) /\ old.status # "cancelled"
       /\ store' = (store \ { old }) \cup { [old EXCEPT !.status = "cancelled"] }
  /\ LET new == CHOOSE ev \in store : ev.by = c
     IN  call' = [call EXCEPT ![c] = [@ EXCEPT !.pc = "done", !.outcome = "ok",
                                              !.eventId = Some(new.id),
                                              !.nDelete = @ + 1]]
  /\ UNCHANGED seq

\* events.delete rejects, as it does for an id that names no event
DeleteOldFail(c) ==
  /\ call[c].pc = "delete"
  /\ call' = [call EXCEPT ![c] = serverError([@ EXCEPT !.nDelete = @ + 1], "delete")]
  /\ UNCHANGED << store, seq >>

(***************************************************************************)
(* LegacySpec: /schedule and /reschedule requests, one after the other.    *)
(***************************************************************************)
LegacyStarts == { Some(T0), Some(SecondHour) }
ExternalKeys == { Null, "", "visit-1" }
\* eventId of /reschedule: absent, an id that names no event, the id of the first
\* event created
EventIds == { None, Some(0), Some(1) }

\* an id the provider has issued can be sent once it has been issued
knownId(eventIdIn) == IF Has(eventIdIn) THEN Get(eventIdIn) <= seq ELSE TRUE

ReceiveLegacy(c) ==
  \/ \E start \in LegacyStarts, allowOverbook \in BOOLEAN, externalKey \in ExternalKeys :
       ReceiveSchedule(c, "alex@example.com", start, 15, Null, allowOverbook,
                       externalKey)
  \/ ReceiveSchedule(c, "alex@example.com", Some(T0), 15, "Mars/Phobos", TRUE, Null)
  \/ \E eventIdIn \in EventIds, email \in Emails, start \in { Some(SecondHour), None } :
       /\ knownId(eventIdIn)
       /\ ReceiveReschedule(c, eventIdIn, email, start, 15, "UTC")

NextLegacy ==
  \E c \in Requests :
    \/ ReceiveLegacy(c)
    \/ DupList(c)
    \/ DupListFail(c)
    \/ FreeBusy(c)
    \/ FreeBusyFail(c)
    \/ ConflictList(c)
    \/ ConflictListFail(c)
    \/ InsertSchedule(c)
    \/ InsertScheduleFail(c)
    \/ FindExisting(c)
    \/ FindExistingFail(c)
    \/ InsertReschedule(c)
    \/ InsertRescheduleFail(c)
    \/ DeleteOld(c)
    \/ DeleteOldFail(c)

LegacySpec == InitLegacy /\ [][NextLegacy]_vars

(***************************************************************************)
(* Failures of the provider and rejected requests.                         *)
(***************************************************************************)
ended(c) == call[c].pc = "done"

\* C11 as claimed: a call one of whose page requests failed has ended with the
\* provider error gcal_error, has computed no slot and no key, and has made no
\* lookup and no insert
C11_FetchFailureEndsWithProviderError ==
  \A c \in Calls : call[c].fetchFailed =>
    /\ ended(c) /\ call[c].outcome = "gcal_error"
    /\ ~Has(call[c].chosenUTC) /\ ~Has(call[c].externalKey)
    /\ ~Has(call[c].hit) /\ ~call[c].lookupFailed /\ ~Has(call[c].eventId)
    /\ call[c].nInsert = 0 /\ eventsBy(c) = {}

\* what holds of a failed fetch whatever the error carries: the call has ended
\* without success, without a slot, a lookup or an insert
fetchFailureAborts ==
  \A c \in Calls : call[c].fetchFailed =>
    /\ ended(c) /\ call[c].outcome \in { "gcal_error", "unhandled" }
    /\ ~Has(call[c].chosenUTC) /\ ~Has(call[c].externalKey)
    /\ ~Has(call[c].hit) /\ ~call[c].lookupFailed /\ ~Has(call[c].eventId)
    /\ call[c].nInsert = 0 /\ eventsBy(c) = {}

\* what holds of a failed insert whatever the error carries: no success, no
\* eventId, no event, one attempt
insertFailureAborts ==
  /\ \A c \in Calls : call[c].nInsert <= 1
  /\ \A c \in Calls : call[c].insertFailed =>
       /\ ended(c) /\ call[c].outcome \in { "gcal_error", "unhandled" }
       /\ ~Has(call[c].eventId) /\ eventsBy(c) = {}
       /\ call[c].nInsert = 1

\* C12 as claimed: a book call whose insert failed has ended with the provider
\* error gcal_error, carries no eventId, created no event, and attempted exactly
\* one insert; no book call attempts more than one
C12_InsertFailureEndsWithProviderError ==
  /\ \A c \in Calls : call[c].nInsert <= 1
  /\ \A c \in Calls : call[c].insertFailed =>
       /\ ended(c) /\ call[c].outcome = "gcal_error"
       /\ ~Has(call[c].eventId) /\ eventsBy(c) = {}
       /\ call[c].nInsert = 1

\* the request carried a start that is no ISO datetime or a zone that is none
malformed(c) ==
  /\ call[c].pc # "idle"
  /\ \/ ~Has(call[c].requested)
     \/ call[c].tzIn # Null /\ ~isValidZone(call[c].tzIn)

\* C13: a malformed request has ended with a validation error and has made no
\* provider call, and only malformed requests end with a validation error
C13_RejectedBeforeAnyProviderCall ==
  \A c \in Calls :
    /\ malformed(c) =>
         /\ ended(c) /\ call[c].outcome = "bad_request"
         /\ call[c].nList = 0 /\ call[c].nInsert = 0
         /\ eventsBy(c) = {} /\ call[c].blocks = << >>
    /\ (ended(c) /\ call[c].outcome = "bad_request") => malformed(c)

\* C13 witness: a book request with a good start and a zone that is none has been
\* rejected before its first provider call
C13_Witness ==
  \E c \in Calls :
    /\ ended(c) /\ call[c].outcome = "bad_request" /\ call[c].nList = 0
    /\ call[c].kind = "book" /\ Has(call[c].requested)
    /\ call[c].tzIn = "Mars/Phobos"

\* C14 as claimed: every call that has ended carries the success payload or a typed
\* error object
C14_EveryCallEndsStructured ==
  \A c \in Calls : ended(c) =>
    call[c].outcome \in { "ok", "bad_request", "gcal_error" }

(***************************************************************************)
(* The pure helpers.                                                       *)
(***************************************************************************)
stepOf(g) == g * SecPerMinute

\* C15: roundUpToMinutesUTC(t, g) is not before t, is a whole number of g minutes
\* from the epoch, is less than g minutes after t, and is the same whatever zone t
\* is expressed in
C15_NormalizeIsCeiling ==
  call.pc \in { "normalized", "renormalized" } =>
    LET t == call.dt.ts
        r == Get(call.once)
    IN  /\ r >= t
        /\ r % stepOf(call.minutes) = 0
        /\ r - t < stepOf(call.minutes)
        /\ \A zone \in ValidZones :
             roundUpToMinutesUTC(toUTCMillis(dateTimeIn(t, zone)), call.minutes) = r

\* C15 witness: an instant given in New York time, off the boundary, moved up
C15_Witness ==
  /\ call.pc = "normalized"
  /\ call.dt.zone = DEFAULT_TZ /\ call.minutes = SLOT_MINUTES
  /\ call.dt.ts % SlotSec # 0
  /\ Get(call.once) > call.dt.ts

\* C16: normalizing a normalized instant returns it, and an instant on a boundary
\* is returned as it is
C16_NormalizeIdempotent ==
  /\ call.pc = "renormalized" => call.twice = call.once
  /\ call.pc \in { "normalized", "renormalized" } =>
       (call.dt.ts % stepOf(call.minutes) = 0 => Get(call.once) = call.dt.ts)

\* C16 witness: an instant off the boundary normalized twice, and the second
\* normalization left it where the first had put it
C16_Witness ==
  /\ call.pc = "renormalized"
  /\ call.dt.ts % stepOf(call.minutes) # 0
  /\ call.twice = call.once /\ Get(call.once) # call.dt.ts

\* C17: the output of mergeBlocks ascends by start, and no entry ends at or after
\* the start of a later entry
C17_MergedSortedAndApart ==
  call.pc = "merged" =>
    \A i, j \in 1 .. Len(call.merged) : i < j =>
      /\ call.merged[i].start <= call.merged[j].start
      /\ call.merged[i].end < call.merged[j].start

\* C17 witness: touching and overlapping blocks given out of order were coalesced
\* into one interval, next to one that stayed apart
C17_Witness ==
  /\ call.pc = "merged"
  /\ Len(call.blocks) = 3 /\ Len(call.merged) = 2
  /\ \E i, j \in 1 .. 3 : i < j /\ call.blocks[i].start = call.blocks[j].end
                          /\ call.blocks[j].start < call.blocks[j].end
                          /\ call.blocks[i].start < call.blocks[i].end
  /\ call.merged[1] = [start |-> 0, end |-> 2]

(***************************************************************************)
(* POST /schedule and POST /reschedule.                                    *)
(***************************************************************************)
scheduled(c) == call[c].kind = "schedule" /\ ended(c) /\ call[c].outcome # "bad_request"
sameIdempKey(c, d) == Has(call[c].key) /\ call[c].key = call[d].key

conflicting(d) ==
  \E ev \in store :
    /\ ev.by < d /\ blocking(ev)
    /\ eventInterval(ev).start < endOf(call[d])
    /\ eventInterval(ev).end > startDtOf(call[d])

\* C19 as claimed: a /schedule call whose window meets busy time has answered
\* 'time_conflict' and inserted no event
C19_ConflictAlwaysRefused ==
  \A d \in Requests : (scheduled(d) /\ conflicting(d)) =>
    /\ call[d].outcome = "time_conflict"
    /\ call[d].nInsert = 0 /\ eventsBy(d) = {}

\* C19 amended: with allowOverbook false, a /schedule call whose window meets busy
\* time inserts no event and answers 'time_conflict', unless the duplicate check
\* answered 'duplicate' first or a provider call of the checks failed (500); with
\* allowOverbook true, the default, no conflict check is made
C19_ConflictRefusedWhenNoOverbook ==
  /\ \A d \in Requests : (scheduled(d) /\ conflicting(d) /\ ~call[d].allowOverbook) =>
       /\ call[d].nInsert = 0 /\ eventsBy(d) = {}
       /\ IF call[d].dupHit THEN call[d].outcome = "duplicate"
          ELSE IF call[d].failedAt # Null
            THEN call[d].outcome = "server_error"
                 /\ call[d].failedAt \in { "dup", "conflictList" }
          ELSE call[d].outcome = "time_conflict"
  /\ \A d \in Requests : (call[d].kind = "schedule" /\ call[d].allowOverbook) =>
       call[d].nFreeBusy = 0 /\ call[d].outcome # "time_conflict"

\* C19 witness: a request with allowOverbook false for a window the busy hour of
\* the calendar reaches into was answered 'time_conflict' by the free/busy query
C19_Witness ==
  \E d \in Requests :
    /\ scheduled(d) /\ conflicting(d) /\ ~call[d].allowOverbook
    /\ call[d].outcome = "time_conflict"
    /\ call[d].nFreeBusy = 1 /\ call[d].nInsert = 0

\* the lookup by email of a /reschedule request without eventId has answered and
\* has found no event
foundNone(d) ==
  /\ call[d].kind = "reschedule" /\ ~Has(call[d].eventIdIn)
  /\ call[d].nList = 1 /\ call[d].failedAt # "find"
  /\ ~Has(call[d].existing)

\* C20: a /reschedule call without eventId whose lookup by email found no event has
\* answered not_found and has made neither an insert nor a delete; nothing else is
\* answered not_found
C20_NotFoundTouchesNothing ==
  \A d \in Requests :
    /\ foundNone(d) =>
         /\ ended(d) /\ call[d].outcome = "not_found"
         /\ call[d].nInsert = 0 /\ call[d].nDelete = 0 /\ eventsBy(d) = {}
    /\ call[d].outcome = "not_found" => foundNone(d)

\* C20 witness: the caller's only tour is over, so the lookup from now on found
\* nothing and the request was answered not_found with the calendar as it was
C20_Witness ==
  \E d \in Requests :
    /\ foundNone(d) /\ call[d].outcome = "not_found"
    /\ \E ev \in store : call[d].email \in ev.attendees /\ ev.status # "cancelled"
    /\ call[d].nInsert = 0 /\ call[d].nDelete = 0

(***************************************************************************)
(* The busy timeline: which events count, pagination, the order of the     *)
(* provider calls.                                                         *)
(***************************************************************************)
\* the events that were on the calendar before the first request
seedsOf == { ev \in store : ev.by = 0 }

\* neither cancelled nor transparent
contributes(ev) == ev.status # "cancelled" /\ ev.transparency # "transparent"

\* the window of a fetch that starts at startUTC meets the event
inWindow(ev, startUTC) ==
  /\ providerInstant(ev.end) > startUTC
  /\ providerInstant(ev.start) < startUTC + AVAIL_HORIZON_DAYS * SecPerDay

\* the blocks of the whole do-while loop of findFirstFreeSlotFromUTC, all pages
fetchAll(events, startUTC) ==
  pushParsed(<< >>,
             orderByStartTime(listMatches(events, toISO(startUTC, "UTC"),
                toISO(startUTC + AVAIL_HORIZON_DAYS * SecPerDay, "UTC"), None)),
             1)

\* findFirstFreeSlotFromUTC(fromUTC) on a calendar that holds events
findFirstFreeSlotFromUTC(events, fromUTC) ==
  LET startUTC == roundUpToMinutesUTC(fromUTC, SLOT_MINUTES)
  IN  firstFreeSlot(startUTC, fetchAll(events, startUTC))

\* C21: a cancelled or transparent event yields no interval, and the slot the finder
\* returns is the one it returns for the calendar without such events, all of them
\* or any one of them; every other event with start before end that meets the
\* window yields its interval, which is in the timeline
C21_NonBlockingEventsNeverCount ==
  /\ \A ev \in store :
       IF ~contributes(ev) THEN parseEventDateTimesToUTC(ev) = None
       ELSE providerInstant(ev.start) < providerInstant(ev.end)
              => parseEventDateTimesToUTC(ev) = Some(eventInterval(ev))
  /\ \A c \in Calls : hasChosen(c) =>
       LET n == Get(call[c].startUTC)
       IN  /\ chosenOf(c) = findFirstFreeSlotFromUTC({ ev \in seedsOf : contributes(ev) }, n)
           /\ \A ev \in seedsOf : ~contributes(ev) =>
                chosenOf(c) = findFirstFreeSlotFromUTC(seedsOf \ { ev }, n)
           /\ \A ev \in seedsOf :
                (contributes(ev) /\ inWindow(ev, n)
                   /\ providerInstant(ev.start) < providerInstant(ev.end))
                  => eventInterval(ev) \in blocksOf(c)

\* C21 witness: the requested slot was chosen on a calendar that holds a cancelled
\* and a transparent event on that very slot, and an opaque event elsewhere
C21_Witness ==
  \E c \in Calls :
    /\ hasChosen(c)
    /\ chosenOf(c) = normalizedOf(c)
    /\ \E ev \in seedsOf : ev.status = "cancelled"
                            /\ overlapsSlot(eventInterval(ev), chosenOf(c))
    /\ \E ev \in seedsOf : ev.transparency = "transparent"
                            /\ overlapsSlot(eventInterval(ev), chosenOf(c))
    /\ blocksOf(c) # {}

\* C22 as claimed: every interval of the timeline a call has built from the
\* provider's events, timed or all-day, has its start before its end
C22_EveryIntervalHasPositiveLength ==
  \A c \in Calls : \A b \in blocksOf(c) : b.start < b.end

\* the events a fetch from startUTC is to return, in the provider's order
listedFrom(events, startUTC) ==
  orderByStartTime(listMatches(events, toISO(startUTC, "UTC"),
     toISO(startUTC + AVAIL_HORIZON_DAYS * SecPerDay, "UTC"), None))

\* the list requests a call has made inside findFirstFreeSlotFromUTC
fetchRequests(c) ==
  call[c].nList - (IF call[c].kind = "book" /\ call[c].pc \in { "insert", "done" }
                     THEN 1 ELSE 0)

\* C23: between two pages the call holds the token of the last response and the
\* blocks of exactly the pages read so far; once the slot is chosen the call holds
\* no token, has made one request per page of the one window [startUTC, startUTC +
\* 30 days) and no further one, and its blocks are those of all the pages
C23_FetchFollowsPagination ==
  \A c \in Calls :
    LET cs  == call[c]
        all == listedFrom(seedsOf, Get(cs.startUTC))
    IN  /\ (cs.pc = "fetch" /\ cs.nList > 0) =>
             /\ cs.pageToken = Some(cs.nList * PageSize)
             /\ cs.nList * PageSize < Len(all)
             /\ cs.blocks = pushParsed(<< >>, SubSeq(all, 1, cs.nList * PageSize), 1)
        /\ hasChosen(c) =>
             /\ cs.pageToken = None
             /\ fetchRequests(c) = IF all = << >> THEN 1 ELSE CeilDiv(Len(all), PageSize)
             /\ cs.blocks = fetchAll(seedsOf, Get(cs.startUTC))

\* C23 witness: a slot was chosen after three pages, one of which held an event
\* that was discarded
C23_Witness ==
  \E c \in Calls :
    /\ hasChosen(c)
    /\ fetchRequests(c) >= 3
    /\ Len(call[c].blocks) = 2
    /\ Len(listedFrom(seedsOf, Get(call[c].startUTC))) = 3

\* C24: in every book call, concurrent ones included: while the fetch is under way
\* no slot is chosen, no lookup has answered and nothing is inserted; a slot is
\* chosen only with the last page read (no token left); the lookup is under way only
\* with the slot chosen and nothing inserted; the insert is issued only after the
\* fetch and the lookup have both answered, the lookup with a miss or a failure
C24_ProviderCallsInOrder ==
  \A c \in Calls :
    LET cs == call[c]
    IN  /\ cs.pc = "fetch" =>
             ~Has(cs.chosenUTC) /\ ~Has(cs.hit) /\ ~cs.lookupFailed /\ cs.nInsert = 0
        /\ Has(cs.chosenUTC) => (cs.pageToken = None /\ cs.nList >= 1)
        /\ cs.pc = "lookup" =>
             Has(cs.chosenUTC) /\ ~Has(cs.hit) /\ ~cs.lookupFailed /\ cs.nInsert = 0
        /\ (cs.pc = "insert" \/ cs.nInsert > 0) =>
             Has(cs.chosenUTC) /\ cs.nList >= 2 /\ ~Has(cs.hit)
        /\ cs.pc = "insert" => cs.nInsert = 0
        /\ cs.nInsert <= 1

\* C24 witness: a call fetched two pages, its lookup failed, and it then inserted
C24_Witness ==
  \E c \in Calls :
    /\ booked(c)
    /\ call[c].nInsert = 1
    /\ call[c].lookupFailed
    /\ call[c].nList >= 3

(***************************************************************************)
(* The event book inserts.                                                 *)
(***************************************************************************)
\* C25 as claimed: the wall-clock start and end that book sends, read back in the
\* zone they are sent with, denote the chosen instant and the chosen instant plus
\* the granularity and nothing else, so that the event the provider stores spans
\* exactly [chosenUTC, chosenUTC + 5 min); the event carries the call's key
C25_InsertedEventDenotesChosenSlot ==
  /\ \A c \in Calls : (call[c].kind = "book" /\ hasChosen(c)) =>
       LET body == requestBody(call[c])
       IN  /\ WallInstants(body.start.dateTime, body.start.timeZone) = { chosenOf(c) }
           /\ WallInstants(body.end.dateTime, body.end.timeZone)
                = { chosenOf(c) + SlotSec }
  /\ \A ev \in store : ev.by # 0 =>
       /\ eventInterval(ev) = [start |-> chosenOf(ev.by), end |-> chosenOf(ev.by) + SlotSec]
       /\ ev.externalKey = call[ev.by].externalKey

(***************************************************************************)
(* POST /reschedule: the new event and the old one.                        *)
(***************************************************************************)
standing(ev) == ev.status # "cancelled"

\* C26: in every step of a /reschedule call: when its insert is rejected the call
\* ends there, with no delete request and the calendar as it was; a delete request
\* is made only with the call's one insert done and its new event on the calendar;
\* and whenever an event that stood leaves the calendar, the new event of the call
\* that removed it stands
C26_OldDeletedOnlyAfterNewInserted ==
  [][\A c \in Requests :
       /\ (call[c].pc = "reinsert" /\ call'[c] # call[c] /\ store' = store) =>
            (call'[c].pc = "done" /\ call'[c].nDelete = 0)
       /\ call'[c].nDelete > call[c].nDelete =>
            /\ call[c].nInsert = 1
            /\ \E new \in store : new.by = c /\ standing(new)
       /\ \A old \in store :
            (standing(old) /\ old \notin store' /\ call'[c] # call[c]) =>
              \E new \in store' : new.by = c /\ standing(new) /\ new.id # old.id
    ]_vars

\* C26 witness: a reschedule has replied ok: the old event is cancelled, the new
\* one stands, after one insert and one delete
C26_Witness ==
  \E c \in Requests :
    /\ call[c].kind = "reschedule" /\ call[c].outcome = "ok"
    /\ call[c].nInsert = 1 /\ call[c].nDelete = 1
    /\ \E old \in store : old.id = Get(call[c].existing) /\ old.by # c /\ ~standing(old)
    /\ \E new \in store : new.by = c /\ standing(new) /\ call[c].eventId = Some(new.id)

(***************************************************************************)
(* What the slot finder leaves alone.                                      *)
(***************************************************************************)
\* C27: every step of a soonest call, and every step of a book call up to the
\* return of the slot finder, leaves the provider's events as they were, makes at
\* most one list request and no insert, whether the step succeeds or fails
C27_FinderIsReadOnly ==
  [][\A c \in Calls :
       (call'[c] # call[c]
          /\ (call'[c].kind = "soonest" \/ call[c].pc \in { "idle", "fetch" })) =>
         /\ store' = store
         /\ seq' = seq
         /\ call'[c].nInsert = 0
         /\ call'[c].nList \in { call[c].nList, call[c].nList + 1 }
    ]_vars

\* C27 witness: a soonest call on a calendar with events has failed on its second
\* page, and the calendar holds the events it held
C27_Witness ==
  \E c \in Calls :
    /\ call[c].kind = "soonest" /\ call[c].pc = "done"
    /\ call[c].fetchFailed /\ call[c].nList = 2 /\ call[c].nInsert = 0
    /\ store = seedsOf /\ Cardinality(store) >= 2

(***************************************************************************)
(* mergeBlocks: what the merged timeline covers.                           *)
(***************************************************************************)
\* the instant p lies in some interval [start, end) of the sequence
covered(blocks, p) ==
  \E i \in 1 .. Len(blocks) : blocks[i].start <= p /\ p < blocks[i].end

\* C28: for input intervals that all have start < end, every instant of the grid is
\* covered by the merged timeline exactly when it is covered by the input, and the
\* array that was passed holds after the call what it held before
C28_MergePreservesCoverage ==
  (call.pc = "merged"
     /\ \A i \in 1 .. Len(call.passed) : call.passed[i].start < call.passed[i].end) =>
    /\ \A p \in 0 .. MaxPoint : covered(call.merged, p) <=> covered(call.passed, p)
    /\ call.blocks = call.passed

\* C28 witness: three different intervals given out of order were merged into one
\* that is none of the three
C28_Witness ==
  /\ call.pc = "merged"
  /\ Len(call.passed) = 3
  /\ \A i \in 1 .. 3 : call.passed[i].start < call.passed[i].end
  /\ call.passed[1].start > call.passed[2].start
  /\ call.passed[3] \notin { call.passed[1], call.passed[2] }
  /\ Len(call.merged) = 1
  /\ \A i \in 1 .. 3 : call.merged[1] # call.passed[i]

(***************************************************************************)
(* HorizonSpec: one request against a calendar that can be busy for the    *)
(* whole window of the fetch and hold an event right after it.             *)
(***************************************************************************)
HorizonEnd == T0 + AVAIL_HORIZON_DAYS * SecPerDay

HorizonSeeds ==
  { seedEvent(0 - 21, T0, HorizonEnd, "opaque"),
    seedEvent(0 - 22, HorizonEnd, HorizonEnd + SlotSec, "opaque"),
    seedEvent(0 - 23, T0 + SlotSec, T0 + 2 * SlotSec, "opaque"),
    seedEvent(0 - 24, T0 - 2 * SlotSec, T0 + SlotSec, "opaque") }

InitHorizon == \E seeds \in SUBSET HorizonSeeds : InitWith(seeds)

HorizonSpec == InitHorizon /\ [][NextFinder]_vars

\* C29 as claimed: the slot the finder returns ends within the window whose events
\* were fetched, chosenUTC + 5 min <= startUTC + 30 days, and every blocking event
\* of the calendar that meets the slot is one the fetch has seen
C29_SlotInsideFetchedWindow ==
  \A c \in Calls : hasChosen(c) =>
    /\ chosenOf(c) + SlotSec <= Get(call[c].startUTC) + AVAIL_HORIZON_DAYS * SecPerDay
    /\ \A ev \in seedsOf :
         (blocking(ev) /\ overlapsSlot(eventInterval(ev), chosenOf(c)))
           => eventInterval(ev) \in blocksOf(c)
====
